---- MODULE Spec2Model ----
(***************************************************************************)
(* Model of crates-io-header-anomalies (src/src/main.rs): the enumeration  *)
(* of the index, the rayon fan-out of HEAD requests over a fixed pool, and *)
(* the header checks of Version::check_headers / Version::expect_header.   *)
(***************************************************************************)
EXTENDS Integers, Sequences, FiniteSets, Bags, TLC

VARIABLES
    lines,          \* the lines of the index files, in traversal order
    cursor,         \* how many lines iter_versions has consumed
    versions,       \* Vec<Version> collected in main
    pc,             \* position of main: collect, par_iter, done, panicked
    num_threads,    \* size of the global rayon pool
    st,             \* per element of versions: queued, fetching, handled, counted
    outcome,        \* per element: what get_headers returned (None before)
    counter,        \* the AtomicU32
    stdout,         \* the lines printed so far
    n_get,          \* per element: number of get_headers calls
    n_check,        \* per element: number of check_headers calls
    n_err,          \* per element: number of error reports
    expected_order, \* iteration order of the lazy_static EXPECTED_KEYS
    headers,        \* the HeaderMap handed to check_headers (checker runs)
    reports         \* the output of each check_headers run on headers

vars == <<lines, cursor, versions, pc, num_threads, st, outcome, counter,
          stdout, n_get, n_check, n_err, expected_order, headers, reports>>

pipeline_vars == <<lines, cursor, versions, pc, num_threads, st, outcome,
                   counter, stdout, n_get, n_check, n_err>>

----
(* Bounds *)

MaxLines == 3
MaxThreads == 2
MaxRuns == 2

----
(* Header names and values *)

\* the literals of the lazy_static initialiser, in source order
ExpectedKeyList ==
    << "content-type", "content-length", "connection", "date",
       "last-modified", "etag", "x-amz-version-id", "accept-ranges",
       "server", "x-cache", "via", "x-amz-cf-pop", "x-amz-cf-id" >>

EXPECTED_KEYS == { ExpectedKeyList[i] : i \in DOMAIN ExpectedKeyList }

Reverse(s) == [ i \in 1..Len(s) |-> s[Len(s) + 1 - i] ]

\* A HashSet iterates in the order of its hash table.  EXPECTED_KEYS is built
\* once per process with a random hasher, so its order is fixed for the run
\* but unknown; two representatives of the possible orders are explored.
KeyOrders == { ExpectedKeyList, Reverse(ExpectedKeyList) }

\* str::to_lowercase on the strings that occur in the model
LowerTable ==
    ( "Content-Type" :> "content-type" ) @@
    ( "Content-Length" :> "content-length" ) @@
    ( "Connection" :> "connection" ) @@
    ( "Date" :> "date" ) @@
    ( "Last-Modified" :> "last-modified" ) @@
    ( "ETag" :> "etag" ) @@
    ( "Accept-Ranges" :> "accept-ranges" ) @@
    ( "Server" :> "server" ) @@
    ( "X-Cache" :> "x-cache" ) @@
    ( "Via" :> "via" ) @@
    ( "X-Amz-Cf-Pop" :> "x-amz-cf-pop" ) @@
    ( "X-Amz-Cf-Id" :> "x-amz-cf-id" ) @@
    ( "Age" :> "age" ) @@
    ( "X-Foo" :> "x-foo" ) @@
    ( "AmazonS3" :> "amazons3" )

to_lowercase(s) == IF s \in DOMAIN LowerTable THEN LowerTable[s] ELSE s

\* A HeaderValue is a byte string; visible_ascii tells whether every byte is
\* visible ASCII, which is what HeaderValue::to_str tests.
Text(s) == [ raw |-> s, visible_ascii |-> TRUE ]
Opaque(s) == [ raw |-> s, visible_ascii |-> FALSE ]

to_str(value) ==
    IF value.visible_ascii THEN [ ok |-> TRUE, s |-> value.raw ]
                           ELSE [ ok |-> FALSE ]

\* The HeaderMap of a response: the header lines as sent, keyed by the
\* lower-cased name (HeaderName is always lower case).
HeaderMapOf(wire) ==
    [ k \in { to_lowercase(n) : n \in DOMAIN wire } |->
        wire[CHOOSE n \in DOMAIN wire : to_lowercase(n) = k] ]

\* the header lines of a well-formed answer of static.crates.io
ConformingWire ==
    ( "Content-Type" :> Text("application/x-tar") ) @@
    ( "Content-Length" :> Text("1024") ) @@
    ( "Connection" :> Text("keep-alive") ) @@
    ( "Date" :> Text("d") ) @@
    ( "Last-Modified" :> Text("m") ) @@
    ( "ETag" :> Text("e") ) @@
    ( "x-amz-version-id" :> Text("v") ) @@
    ( "Accept-Ranges" :> Text("bytes") ) @@
    ( "Server" :> Text("AmazonS3") ) @@
    ( "X-Cache" :> Text("Hit from cloudfront") ) @@
    ( "Via" :> Text("1.1 cloudfront") ) @@
    ( "X-Amz-Cf-Pop" :> Text("p") ) @@
    ( "X-Amz-Cf-Id" :> Text("i") )

Restrict(f, S) == [ x \in S |-> f[x] ]

\* the header lines that may be absent, the extra ones that may be present,
\* and the values the checked headers may carry
DroppableNames == { "Via", "ETag", "Server" }
ExtraWires ==
    { Restrict(( "Age" :> Text("17") ) @@ ( "X-Foo" :> Text("1") ) @@
               ( "x-bar" :> Text("2") ), S) :
        S \in SUBSET { "Age", "X-Foo", "x-bar" } }
ServerValues == { Text("AmazonS3"), Text("amazons3"), Opaque("AmazonS3+") }
ContentTypeValues == { Text("application/x-tar"), Text("text/html") }

Wires ==
    { LET full == ( "Server" :> sv ) @@ ( "Content-Type" :> ct ) @@ extra @@
                  ConformingWire
      IN  Restrict(full, DOMAIN full \ drop) :
        sv \in ServerValues, ct \in ContentTypeValues,
        extra \in ExtraWires, drop \in SUBSET DroppableNames }

HeaderMaps == { HeaderMapOf(w) : w \in Wires }

----
(* impl Version: the header checks *)

\* impl Display for Version
Display(self) == [ name |-> self.name, vers |-> self.vers ]

\* the three println! of check_headers / expect_header and the one of
\* get_and_check_headers, as records
MissingLine(self, key) ==
    [ who |-> Display(self), kind |-> "missing", key |-> key ]
UnexpectedLine(self, key) ==
    [ who |-> Display(self), kind |-> "unexpected", key |-> key ]
ValueLine(self, key, actual_value) ==
    [ who |-> Display(self), kind |-> "value", key |-> key,
      value |-> actual_value ]
ErrorLine(self, e) ==
    [ who |-> Display(self), kind |-> "error", msg |-> e ]
SummaryLine(n) ==
    [ kind |-> "summary", n |-> n ]

\* the orders in which a freshly built HashSet may iterate over S
RECURSIVE iteration_orders(_)
iteration_orders(S) ==
    IF S = {} THEN { <<>> }
    ELSE UNION { { <<x>> \o p : p \in iteration_orders(S \ {x}) } : x \in S }

\* key != "age"
not_age_mut(key) == TRUE
not_age(key) == key # "age"

\* |s| s != expected_value
differs_mut(s, expected_value) ==
    to_lowercase(s) # to_lowercase(expected_value)
differs(s, expected_value) == s # expected_value

\* Result::map(..).unwrap_or(false)
map_unwrap_or_false(res, expected_value) ==
    IF res.ok THEN differs(res.s, expected_value) ELSE FALSE

\* Version::expect_header: the lines it prints
expect_header(self, hdrs, key, expected_value) ==
    IF key \in DOMAIN hdrs
    THEN IF map_unwrap_or_false(to_str(hdrs[key]), expected_value)
         THEN << ValueLine(self, key, hdrs[key]) >>
         ELSE <<>>
    ELSE <<>>

actual_keys(hdrs) == { to_lowercase(key) : key \in DOMAIN hdrs }

\* for key in EXPECTED_KEYS.difference(&actual_keys)
missing_lines(self, hdrs, order) ==
    LET absent(key) == key \notin actual_keys(hdrs)
        keys == SelectSeq(order, absent)
    IN  [ i \in 1..Len(keys) |-> MissingLine(self, keys[i]) ]

\* for key in actual_keys.difference(&EXPECTED_KEYS), one iteration order
unexpected_lines(self, keys) ==
    LET reported == SelectSeq(keys, not_age)
    IN  [ i \in 1..Len(reported) |-> UnexpectedLine(self, reported[i]) ]

value_lines(self, hdrs) ==
    expect_header(self, hdrs, "content-type", "application/x-tar") \o
    expect_header(self, hdrs, "connection", "keep-alive") \o
    expect_header(self, hdrs, "accept-ranges", "bytes") \o
    expect_header(self, hdrs, "server", "AmazonS3")

\* Version::check_headers: the sequences of lines one call may print
check_headers_mut(self, hdrs, order) ==
    { value_lines(self, hdrs) \o missing_lines(self, hdrs, order) \o
      unexpected_lines(self, keys) :
        keys \in iteration_orders(actual_keys(hdrs) \ EXPECTED_KEYS) }
check_headers(self, hdrs, order) ==
    { missing_lines(self, hdrs, order) \o unexpected_lines(self, keys) \o
      value_lines(self, hdrs) :
        keys \in iteration_orders(actual_keys(hdrs) \ EXPECTED_KEYS) }

----
(* The index and its enumeration *)

\* A line of an index file: JSON text or not; a JSON object carries fields.
IndexLines ==
    { [ json |-> TRUE,
        obj |-> [ name |-> "serde", vers |-> "1.0.0", cksum |-> "c1" ] ],
      [ json |-> TRUE,
        obj |-> [ name |-> "rand", vers |-> "0.7.0", yanked |-> FALSE ] ],
      [ json |-> TRUE, obj |-> [ name |-> "rand", cksum |-> "c2" ] ],
      [ json |-> FALSE, obj |-> [ text |-> "{" ] ] }

RECURSIVE SeqsUpTo(_, _)
SeqsUpTo(S, n) ==
    IF n = 0 THEN { <<>> }
    ELSE LET shorter == SeqsUpTo(S, n - 1)
         IN  shorter \cup { Append(q, x) : q \in shorter, x \in S }

\* serde_json::from_str::<Version>: name and vers are required, the other
\* fields are ignored
from_str(line) ==
    IF line.json /\ { "name", "vers" } \subseteq DOMAIN line.obj
    THEN [ ok |-> TRUE,
           value |-> [ name |-> line.obj.name, vers |-> line.obj.vers ] ]
    ELSE [ ok |-> FALSE ]

----
(* The probes *)

None == [ none |-> TRUE ]
Ok(hdrs) == [ ok |-> TRUE, headers |-> hdrs ]
Err(e) == [ ok |-> FALSE, error |-> e ]

\* the answers a probe may get in the pipeline
AnomalousWire ==
    LET full == ( "Content-Type" :> Text("text/html") ) @@
                ( "X-Foo" :> Text("1") ) @@ ( "Age" :> Text("17") ) @@
                ConformingWire
    IN  Restrict(full, DOMAIN full \ { "Server" })
ProbeResponses == { HeaderMapOf(ConformingWire), HeaderMapOf(AnomalousWire) }
ProbeErrors == { "error sending request" }

\* a pool thread is free to take the next element
worker_idle_mut(active, n) == TRUE
worker_idle(active, n) == active < n

\* AtomicU32::fetch_add(1): one indivisible read-modify-write.  The counter
\* wraps at 2^32, which an index of at most MaxLines lines never reaches.
fetch_add(c) == c + 1

\* println!: the write is serialised by the lock of stdout
println_mut(out, ls) == ls
println(out, ls) == out \o ls

Items == DOMAIN versions
Active == { i \in Items : st[i] \in { "fetching", "handled" } }
InFlight == { i \in Items : st[i] = "fetching" }

----
(* main *)

checker_idle == /\ headers = HeaderMapOf(ConformingWire)
                /\ reports = <<>>

Init ==
    /\ lines \in SeqsUpTo(IndexLines, MaxLines)
    /\ cursor = 0
    /\ versions = <<>>
    /\ pc = "collect"
    /\ num_threads \in 1..MaxThreads
    /\ st = <<>>
    /\ outcome = <<>>
    /\ counter = 0
    /\ stdout = <<>>
    /\ n_get = <<>>
    /\ n_check = <<>>
    /\ n_err = <<>>
    /\ expected_order \in KeyOrders
    /\ checker_idle

\* iter_versions(..).collect(), one line: a line that does not parse panics
\* in the unwrap of line 133
Collect_mut ==
    /\ pc = "collect"
    /\ cursor < Len(lines)
    /\ cursor' = cursor + 1
    /\ LET parsed == from_str(lines[cursor + 1])
       IN  IF parsed.ok
           THEN /\ versions' = Append(versions, parsed.value)
                /\ st' = Append(st, "queued")
                /\ outcome' = Append(outcome, None)
                /\ n_get' = Append(n_get, 0)
                /\ n_check' = Append(n_check, 0)
                /\ n_err' = Append(n_err, 0)
                /\ pc' = pc
           ELSE /\ pc' = pc
                /\ UNCHANGED <<versions, st, outcome, n_get, n_check, n_err>>
    /\ UNCHANGED <<lines, num_threads, counter, stdout, expected_order,
                   headers, reports>>
Collect ==
    /\ pc = "collect"
    /\ cursor < Len(lines)
    /\ cursor' = cursor + 1
    /\ LET parsed == from_str(lines[cursor + 1])
       IN  IF parsed.ok
           THEN /\ versions' = Append(versions, parsed.value)
                /\ st' = Append(st, "queued")
                /\ outcome' = Append(outcome, None)
                /\ n_get' = Append(n_get, 0)
                /\ n_check' = Append(n_check, 0)
                /\ n_err' = Append(n_err, 0)
                /\ pc' = pc
           ELSE /\ pc' = "panicked"
                /\ UNCHANGED <<versions, st, outcome, n_get, n_check, n_err>>
    /\ UNCHANGED <<lines, num_threads, counter, stdout, expected_order,
                   headers, reports>>

\* the iterator is exhausted: the Vec is complete, the counter is created and
\* par_iter().for_each hands the elements to the pool
Collected ==
    /\ pc = "collect"
    /\ cursor = Len(lines)
    /\ pc' = "par_iter"
    /\ counter' = 0
    /\ UNCHANGED <<lines, cursor, versions, num_threads, st, outcome, stdout,
                   n_get, n_check, n_err, expected_order, headers, reports>>

\* a free pool thread takes element i and sends the HEAD request of
\* get_headers
Start_mut(i) ==
    /\ pc = "par_iter"
    /\ st[i] \in { "queued", "counted" }
    /\ worker_idle(Cardinality(Active), num_threads)
    /\ st' = [st EXCEPT ![i] = "fetching"]
    /\ n_get' = [n_get EXCEPT ![i] = @ + 1]
    /\ UNCHANGED <<lines, cursor, versions, pc, num_threads, outcome, counter,
                   stdout, n_check, n_err, expected_order, headers, reports>>
Start(i) ==
    /\ pc = "par_iter"
    /\ st[i] = "queued"
    /\ worker_idle(Cardinality(Active), num_threads)
    /\ st' = [st EXCEPT ![i] = "fetching"]
    /\ n_get' = [n_get EXCEPT ![i] = @ + 1]
    /\ UNCHANGED <<lines, cursor, versions, pc, num_threads, outcome, counter,
                   stdout, n_check, n_err, expected_order, headers, reports>>

\* get_headers returns Ok(response): check_headers prints its findings
GetOk(i) ==
    /\ st[i] = "fetching"
    /\ \E hdrs \in ProbeResponses :
         /\ outcome' = [outcome EXCEPT ![i] = Ok(hdrs)]
         /\ \E out \in check_headers(versions[i], hdrs, expected_order) :
              stdout' = println(stdout, out)
    /\ n_check' = [n_check EXCEPT ![i] = @ + 1]
    /\ st' = [st EXCEPT ![i] = "handled"]
    /\ UNCHANGED <<lines, cursor, versions, pc, num_threads, counter, n_get,
                   n_err, expected_order, headers, reports>>

\* get_headers returns Err(e): the error is printed, nothing else happens
GetErr_mut(i) ==
    /\ st[i] = "fetching"
    /\ \E e \in ProbeErrors :
         /\ outcome' = [outcome EXCEPT ![i] = Err(e)]
         /\ stdout' = println(stdout, << ErrorLine(versions[i], e) >>)
    /\ n_err' = [n_err EXCEPT ![i] = @ + 1]
    /\ st' = [st EXCEPT ![i] = "handled"]
    /\ pc' = "panicked"
    /\ UNCHANGED <<lines, cursor, versions, num_threads, counter, n_get,
                   n_check, expected_order, headers, reports>>
GetErr(i) ==
    /\ st[i] = "fetching"
    /\ \E e \in ProbeErrors :
         /\ outcome' = [outcome EXCEPT ![i] = Err(e)]
         /\ stdout' = println(stdout, << ErrorLine(versions[i], e) >>)
    /\ n_err' = [n_err EXCEPT ![i] = @ + 1]
    /\ st' = [st EXCEPT ![i] = "handled"]
    /\ UNCHANGED <<lines, cursor, versions, pc, num_threads, counter, n_get,
                   n_check, expected_order, headers, reports>>

\* counter.fetch_add(1, Ordering::Relaxed): the closure ends, the thread is
\* free again
FetchAdd_mut(i) ==
    /\ st[i] = "handled"
    /\ counter' = IF outcome[i].ok THEN fetch_add(counter) ELSE counter
    /\ st' = [st EXCEPT ![i] = "counted"]
    /\ UNCHANGED <<lines, cursor, versions, pc, num_threads, outcome, stdout,
                   n_get, n_check, n_err, expected_order, headers, reports>>
FetchAdd(i) ==
    /\ st[i] = "handled"
    /\ counter' = fetch_add(counter)
    /\ st' = [st EXCEPT ![i] = "counted"]
    /\ UNCHANGED <<lines, cursor, versions, pc, num_threads, outcome, stdout,
                   n_get, n_check, n_err, expected_order, headers, reports>>

\* for_each returns when every element is processed; main prints the count
Summary ==
    /\ pc = "par_iter"
    /\ \A i \in Items : st[i] = "counted"
    /\ stdout' = println(stdout, << SummaryLine(counter) >>)
    /\ pc' = "done"
    /\ UNCHANGED <<lines, cursor, versions, num_threads, st, outcome, counter,
                   n_get, n_check, n_err, expected_order, headers, reports>>

Next ==
    \/ Collect
    \/ Collected
    \/ \E i \in Items : Start(i)
    \/ \E i \in Items : GetOk(i)
    \/ \E i \in Items : GetErr(i)
    \/ \E i \in Items : FetchAdd(i)
    \/ Summary

Spec == Init /\ [][Next]_vars

----
(* The checker on its own: check_headers applied MaxRuns times to one map *)

CheckSelf == [ name |-> "serde", vers |-> "1.0.0" ]

InitCheck ==
    /\ lines = <<>>
    /\ cursor = 0
    /\ versions = <<>>
    /\ pc = "check"
    /\ num_threads = 1
    /\ st = <<>>
    /\ outcome = <<>>
    /\ counter = 0
    /\ stdout = <<>>
    /\ n_get = <<>>
    /\ n_check = <<>>
    /\ n_err = <<>>
    /\ expected_order \in KeyOrders
    /\ headers \in HeaderMaps
    /\ reports = <<>>

CheckRun ==
    /\ pc = "check"
    /\ Len(reports) < MaxRuns
    /\ \E out \in check_headers(CheckSelf, headers, expected_order) :
         reports' = Append(reports, out)
    /\ UNCHANGED <<pipeline_vars, expected_order, headers>>

NextCheck == CheckRun

SpecCheck == InitCheck /\ [][NextCheck]_vars

----
(* Properties of the pipeline (Spec) *)

Range(q) == { q[i] : i \in DOMAIN q }
BagOfSeq(q) == [ x \in Range(q) |-> Cardinality({ i \in DOMAIN q : q[i] = x }) ]
Count(q, kind, who, key) ==
    Cardinality({ i \in DOMAIN q : /\ q[i].kind = kind
                                   /\ q[i].who = who
                                   /\ q[i].key = key })
IsOk(i) == outcome[i] # None /\ outcome[i].ok
IsErr(i) == outcome[i] # None /\ ~outcome[i].ok
BadLines == { k \in DOMAIN lines : ~from_str(lines[k]).ok }
SummaryPrinted == \E k \in DOMAIN stdout : stdout[k].kind = "summary"

\* C1: each record the enumerator produces is probed exactly once and its
\* outcome handled exactly once (check_headers on success, one report on
\* failure); at the summary no record was skipped, and a record listed twice
\* was probed twice.
C1_ProbedAndHandledOnce ==
    /\ \A i \in Items : n_get[i] <= 1 /\ n_check[i] + n_err[i] <= n_get[i]
    /\ pc = "done" =>
         /\ Len(versions) = Len(lines)
         /\ \A i \in Items :
              /\ versions[i] = from_str(lines[i]).value
              /\ n_get[i] = 1
              /\ IsOk(i) => n_check[i] = 1 /\ n_err[i] = 0
              /\ IsErr(i) => n_check[i] = 0 /\ n_err[i] = 1
              /\ IsOk(i) \/ IsErr(i)

C1_Witness ==
    /\ pc = "done"
    /\ \E i, j \in Items :
         /\ i < j /\ versions[i] = versions[j]
         /\ n_get[i] = 1 /\ n_get[j] = 1
         /\ IsOk(i) /\ IsErr(j)

\* C2: the counter is incremented once per completed probe, success or
\* failure, and the summary line is printed last, only when every element
\* has completed, with N the number of elements submitted.
C2_CounterAndSummary ==
    /\ counter = Cardinality({ i \in Items : st[i] = "counted" })
    /\ \A k \in DOMAIN stdout :
         stdout[k].kind = "summary" =>
            /\ k = Len(stdout)
            /\ \A i \in Items : st[i] = "counted"
            /\ stdout[k].n = Len(versions)
            /\ Len(versions) = Len(lines)

C2_Witness ==
    /\ SummaryPrinted
    /\ Len(versions) >= 3
    /\ \E i, j \in Items : IsOk(i) /\ IsErr(j)

\* C3: a failed fetch prints one message carrying its identifier, is not
\* retried, and leaves the run going: main never aborts because of it, the
\* pool is never stuck, and at the end every element has been handled and the
\* summary is the last line.
C3_FailureIsolated ==
    /\ \A i \in Items :
         LET same == { j \in Items : versions[j] = versions[i] /\ IsErr(j) }
             printed == { k \in DOMAIN stdout :
                            /\ stdout[k].kind = "error"
                            /\ stdout[k].who = Display(versions[i]) }
         IN  /\ Cardinality(printed) = Cardinality(same)
             /\ IsErr(i) => n_get[i] = 1 /\ st[i] \in { "handled", "counted" }
    /\ (\E i \in Items : IsErr(i)) =>
         /\ pc \in { "par_iter", "done" }
         /\ pc = "par_iter" => ENABLED Next
         /\ pc = "done" =>
              /\ \A j \in Items : n_get[j] = 1 /\ n_check[j] + n_err[j] = 1
              /\ stdout[Len(stdout)] = SummaryLine(Len(versions))

C3_Witness ==
    /\ pc = "done"
    /\ \E i, j \in Items : i < j /\ IsErr(i) /\ IsOk(j) /\ n_check[j] = 1

\* C4: the number of requests in flight never exceeds the size of the pool.
C4_InFlightBounded ==
    Cardinality(InFlight) <= num_threads

C4_Witness ==
    /\ Cardinality(InFlight) = num_threads
    /\ num_threads > 1
    /\ \E i \in Items : st[i] = "queued"

\* C5: an index with a line that does not parse never gets to the probes and
\* never prints the summary: main panics, wherever the line sits.
C5_BadRecordAborts ==
    BadLines # {} =>
        /\ pc \in { "collect", "panicked" }
        /\ stdout = <<>>
        /\ \A i \in Items : n_get[i] = 0
        /\ (\E k \in BadLines : k <= cursor) => pc = "panicked"

C5_Witness ==
    /\ pc = "panicked"
    /\ Len(versions) >= 1
    /\ cursor < Len(lines)

\* the lines one element must contribute, whatever the schedule
LinesOf(i) ==
    IF outcome[i].ok
    THEN CHOOSE out \in check_headers(versions[i], outcome[i].headers,
                                      ExpectedKeyList) : TRUE
    ELSE << ErrorLine(versions[i], outcome[i].error) >>

RECURSIVE ExpectedOutput(_)
ExpectedOutput(n) ==
    IF n = 0 THEN EmptyBag
    ELSE ExpectedOutput(n - 1) (+) BagOfSeq(LinesOf(n))

\* C6: the multiset of lines a finished run has printed and its count are a
\* function of the index and of the answer each element got; the size of the
\* pool (1 or more) and the schedule do not enter.
C6_PoolSizeIndependent ==
    pc = "done" =>
        BagOfSeq(stdout) =
            ExpectedOutput(Len(versions)) (+)
            SetToBag({ SummaryLine(Len(lines)) })

C6_Witness ==
    /\ pc = "done"
    /\ num_threads > 1
    /\ Len(versions) >= 2
    /\ versions[1] # versions[2]
    /\ IsOk(1) /\ IsOk(2)
    /\ Len(stdout) >= 3
    /\ stdout[1].who = Display(versions[2])
    /\ stdout[Len(stdout) - 1].who = Display(versions[1])

----
(* Properties of the checker (SpecCheck) *)

\* the exact values of lines 88-91
ExactValues ==
    ( "content-type" :> "application/x-tar" ) @@
    ( "connection" :> "keep-alive" ) @@
    ( "accept-ranges" :> "bytes" ) @@
    ( "server" :> "AmazonS3" )

Observed == { to_lowercase(k) : k \in DOMAIN headers }
Who == Display(CheckSelf)
PresenceLines(out) ==
    { i \in DOMAIN out : out[i].kind \in { "missing", "unexpected" } }

\* C7: the presence findings of one check are exactly one "did not contain"
\* per expected key that is not observed and one "unexpected" per observed
\* key that is neither expected nor "age"; nothing else, nothing twice.
C7_PresenceFindings ==
    \A r \in DOMAIN reports :
        LET out == reports[r]
        IN  /\ \A key \in EXPECTED_KEYS \cup Observed :
                 /\ Count(out, "missing", Who, key) =
                        IF key \in EXPECTED_KEYS \ Observed THEN 1 ELSE 0
                 /\ Count(out, "unexpected", Who, key) =
                        IF key \in (Observed \ EXPECTED_KEYS) \ { "age" }
                        THEN 1 ELSE 0
            /\ \A i \in PresenceLines(out) :
                 out[i].who = Who /\ out[i].key \in EXPECTED_KEYS \cup Observed

C7_Witness ==
    /\ Len(reports) >= 1
    /\ { "age", "x-foo" } \subseteq Observed
    /\ "server" \notin Observed
    /\ Count(reports[1], "unexpected", Who, "x-foo") = 1
    /\ Count(reports[1], "missing", Who, "server") = 1

Undecodable(key) == key \in DOMAIN headers /\ ~to_str(headers[key]).ok

\* C8: a checked header that is present with a value that is not text gets
\* an "unexpected value" finding.
C8_UndecodableFlagged ==
    \A r \in DOMAIN reports : \A key \in DOMAIN ExactValues :
        Undecodable(key) => Count(reports[r], "value", Who, key) = 1

\* C9: a checked header that is present with a text value gets an
\* "unexpected value" finding exactly when the text differs from the required
\* one, case included; an absent header gets none.
C9_ValueFindings ==
    \A r \in DOMAIN reports : \A key \in DOMAIN ExactValues :
        /\ key \notin DOMAIN headers =>
              Count(reports[r], "value", Who, key) = 0
        /\ (key \in DOMAIN headers /\ to_str(headers[key]).ok) =>
              Count(reports[r], "value", Who, key) =
                 IF headers[key].raw # ExactValues[key] THEN 1 ELSE 0

C9_Witness ==
    /\ Len(reports) >= 1
    /\ "server" \in DOMAIN headers
    /\ headers["server"] = Text("amazons3")
    /\ Count(reports[1], "value", Who, "server") = 1

\* C10 as stated: two checks of the same input print the same list of lines.
C10_SameOrderedList ==
    \A r1, r2 \in DOMAIN reports : reports[r1] = reports[r2]

StepOf(line) ==
    CASE line.kind = "missing" -> 1
      [] line.kind = "unexpected" -> 2
      [] line.kind = "value" -> 3

OfKind(out, kind) ==
    LET is(line) == line.kind = kind IN SelectSeq(out, is)

\* C10 amended: two checks of the same input in one process print the same
\* findings, each in the order missing, unexpected, value; the missing and
\* the value findings come in the same order both times, the unexpected ones
\* in any order.
C10_SameFindingsInStepOrder ==
    \A r1, r2 \in DOMAIN reports :
        /\ BagOfSeq(reports[r1]) = BagOfSeq(reports[r2])
        /\ OfKind(reports[r1], "missing") = OfKind(reports[r2], "missing")
        /\ OfKind(reports[r1], "value") = OfKind(reports[r2], "value")
        /\ \A a, b \in DOMAIN reports[r1] :
             a < b => StepOf(reports[r1][a]) <= StepOf(reports[r1][b])

C10_Witness ==
    /\ Len(reports) >= 2
    /\ reports[1] # reports[2]
    /\ OfKind(reports[1], "missing") # <<>>
    /\ OfKind(reports[1], "value") # <<>>

====
